---- MODULE Spec2Model ----
(***************************************************************************)
(* Model of main.py of macOSVoiceMemosExporter: the per-record export      *)
(* loop of main() (planning of paths, the keystroke capture on the         *)
(* terminal, the copy and the timestamping of the file, the table rows).  *)
(*                                                                         *)
(* Strings are sequences of one-character strings.  A float number of      *)
(* seconds is a record [s, us] of whole seconds and microseconds.          *)
(***************************************************************************)
EXTENDS Integers, Sequences, FiniteSets, TLC

(***************************************************************************)
(* Bounds of the model.                                                    *)
(***************************************************************************)
MaxRows == 2
MaxKeys == 3

(***************************************************************************)
(* Generic string helpers (Python str operations used by main()).          *)
(***************************************************************************)
\* str * n, as in the border strings built from c["w"]
Rep(c, n) == [i \in 1..n |-> c]

\* c in s
Contains(s, c) == \E i \in 1..Len(s) : s[i] = c

\* s.rfind(c) as a 1-based position, 0 when c does not occur
RFind(s, c) ==
    IF Contains(s, c) THEN CHOOSE i \in 1..Len(s) : s[i] = c /\ \A j \in (i+1)..Len(s) : s[j] # c
    ELSE 0

\* s[-n:] for n > 0
Last(s, n) == IF Len(s) <= n THEN s ELSE SubSeq(s, Len(s) - n + 1, Len(s))

\* sep.join(parts)
RECURSIVE Join(_, _)
Join(sep, parts) ==
    IF parts = <<>> THEN <<>>
    ELSE IF Len(parts) = 1 THEN parts[1]
    ELSE parts[1] \o sep \o Join(sep, Tail(parts))

Digit(n) == <<"0", "1", "2", "3", "4", "5", "6", "7", "8", "9">>[n + 1]

\* str(n) for n >= 0
RECURSIVE Str(_)
Str(n) == IF n < 10 THEN <<Digit(n)>> ELSE Str(n \div 10) \o <<Digit(n % 10)>>

\* "%02d" % n
Str2(n) == IF n < 10 THEN <<"0", Digit(n)>> ELSE Str(n)

\* "%04d" % n
Str4(n) == Rep("0", 4 - Len(Str(n))) \o Str(n)

\* "%06d" % n
Str6(n) == Rep("0", 6 - Len(Str(n))) \o Str(n)

\* "{:w}".format(s): pads on the right up to w, never truncates
Format(s, w) == IF Len(s) < w THEN s \o Rep(" ", w - Len(s)) ELSE s

(***************************************************************************)
(* The table: columns and rows.                                            *)
(***************************************************************************)
cols == << [n |-> "Date",     w |-> 19],
           [n |-> "Duration", w |-> 11],
           [n |-> "Old Path", w |-> 32],
           [n |-> "New Path", w |-> 60],
           [n |-> "Status",   w |-> 12] >>

getWidth(name) ==
    IF \E i \in 1..Len(cols) : cols[i].n = name
    THEN cols[CHOOSE i \in 1..Len(cols) : cols[i].n = name /\ \A j \in 1..(i-1) : cols[j].n # name].w
    ELSE 0

\* helper_str(seperator).format(*content_list)
helper_str(seperator, content_list) ==
    Join(seperator, [i \in 1..Len(cols) |-> Format(content_list[i], cols[i].w)])

\* the box-drawing vertical bar is written "|" (one character as well)
body_row(content_list) ==
    <<"|", " ">> \o helper_str(<<" ", "|", " ">>, content_list) \o <<" ", "|">>

\* the status texts of the body rows
StNoFile == <<"N","o"," ","F","i","l","e">>
StPending == <<"E","x","p","o","r","t","?">>
StExported == <<"E","x","p","o","r","t","e","d","!">>
StNotExported == <<"N","o","t"," ","E","x","p","o","r","t","e","d">>

(***************************************************************************)
(* Timestamp and duration.                                                 *)
(***************************************************************************)
dt_offset == 978307200
dt_offset_us == 825232

\* datetime.fromtimestamp(row[0] + _dt_offset, tz=UTC): whole seconds since 1970
date_utc(zdate) == zdate.s + dt_offset + ((zdate.us + dt_offset_us) \div 1000000)

\* time.mktime(date.timetuple()): the local time tuple read back in the
\* local zone, microseconds dropped
mod_time(zdate, utcoffset) == (date_utc(zdate) + utcoffset) - utcoffset

\* the calendar fields of date = date_utc.astimezone(local_tz)
civil(zdate, utcoffset) ==
    LET loc  == date_utc(zdate) + utcoffset
        days == loc \div 86400
        sod  == loc % 86400
        z    == days + 719468
        era  == z \div 146097
        doe  == z - era * 146097
        yoe  == (doe - (doe \div 1460) + (doe \div 36524) - (doe \div 146096)) \div 365
        doy  == doe - (365 * yoe + (yoe \div 4) - (yoe \div 100))
        mp   == (5 * doy + 2) \div 153
        d    == doy - ((153 * mp + 2) \div 5) + 1
        m    == IF mp < 10 THEN mp + 3 ELSE mp - 9
        y    == yoe + era * 400 + (IF m <= 2 THEN 1 ELSE 0)
    IN [Y |-> y, m |-> m, d |-> d,
        H |-> sod \div 3600, M |-> (sod % 3600) \div 60, S |-> sod % 60]

\* date.strftime("%d.%m.%Y %H:%M:%S")
date_str(zdate, utcoffset) ==
    LET c == civil(zdate, utcoffset)
    IN Str2(c.d) \o <<".">> \o Str2(c.m) \o <<".">> \o Str4(c.Y) \o <<" ">>
       \o Str2(c.H) \o <<":">> \o Str2(c.M) \o <<":">> \o Str2(c.S)

\* date.strftime(args.date_in_name_format), default "%Y-%m-%d-%H-%M-%S_"
local_time_str(zdate, utcoffset) ==
    LET c == civil(zdate, utcoffset)
    IN Str4(c.Y) \o <<"-">> \o Str2(c.m) \o <<"-">> \o Str2(c.d) \o <<"-">>
       \o Str2(c.H) \o <<"-">> \o Str2(c.M) \o <<"-">> \o Str2(c.S) \o <<"_">>

\* str(timedelta(seconds=row[1])) for a duration >= 0
timedelta_str(dur) ==
    LET days == dur.s \div 86400
        rem  == dur.s % 86400
        hms  == Str(rem \div 3600) \o <<":">> \o Str2((rem % 3600) \div 60)
                \o <<":">> \o Str2(rem % 60)
        pre  == IF days = 0 THEN <<>>
                ELSE Str(days) \o (IF days = 1 THEN <<" ","d","a","y",","," ">>
                                   ELSE <<" ","d","a","y","s",","," ">>)
        frac == IF dur.us = 0 THEN <<>> ELSE <<".">> \o Str6(dur.us)
    IN pre \o hms \o frac

duration_str(dur) ==
    LET s0 == timedelta_str(dur)
        s1 == IF Contains(s0, ".") THEN SubSeq(s0, 1, RFind(s0, ".") + 2)
              ELSE s0 \o <<".", "0", "0">>
    IN IF Len(s1) = 10 THEN <<"0">> \o s1 ELSE s1

(***************************************************************************)
(* Paths (os.path) and the planning of one record.                        *)
(***************************************************************************)
\* a character outside the 7-bit range is written as the name of its code point
NonAscii == {"U+00E9"}

\* row[2].encode('ascii', 'ignore').decode("ascii")
ascii_ignore(s) == SelectSeq(s, LAMBDA c : c \notin NonAscii)

\* s.replace("/", "_")
replace_slash(s) == [i \in 1..Len(s) |-> IF s[i] = "/" THEN "_" ELSE s[i]]

VoiceMemo == <<"V","o","i","c","e","M","e","m","o">>

label(raw) ==
    LET l == replace_slash(ascii_ignore(raw))
    IN IF Contains(l, "T") /\ Contains(l, "Z") THEN VoiceMemo ELSE l

\* s.rstrip("/")
RECURSIVE rstrip_slash(_)
rstrip_slash(s) ==
    IF s # <<>> /\ s[Len(s)] = "/" THEN rstrip_slash(SubSeq(s, 1, Len(s) - 1)) ELSE s

\* os.path.dirname(p)
dirname(p) ==
    LET head == SubSeq(p, 1, RFind(p, "/"))
    IN IF head # <<>> /\ head # Rep("/", Len(head)) THEN rstrip_slash(head) ELSE head

\* os.path.join(a, b)
path_join(a, b) ==
    IF b # <<>> /\ b[1] = "/" THEN b
    ELSE IF a = <<>> \/ a[Len(a)] = "/" THEN a \o b
    ELSE a \o <<"/">> \o b

\* os.path.splitext(p)[1]
splitext_ext(p) ==
    LET sepIndex == RFind(p, "/")
        dotIndex == RFind(p, ".")
    IN IF dotIndex > sepIndex /\ \E i \in (sepIndex + 1)..(dotIndex - 1) : p[i] # "."
       THEN SubSeq(p, dotIndex, Len(p))
       ELSE <<>>

\* the source path joined without the test of row[3]
path_old_Unchecked(row, db_path) == path_join(dirname(db_path), row.path)

path_old(row, db_path) ==
    IF row.path # <<>> THEN path_join(dirname(db_path), row.path) ELSE <<>>

path_new(row, db_path, export_path, date_in_name, utcoffset) ==
    LET po == path_old(row, db_path)
    IN IF po # <<>>
       THEN path_join(export_path,
                      IF date_in_name
                      THEN local_time_str(row.zdate, utcoffset) \o <<"_">>
                           \o label(row.label) \o splitext_ext(po)
                      ELSE label(row.label) \o splitext_ext(po))
       ELSE <<>>

\* path_old_short / path_new_short
path_short(path, colname) ==
    IF Len(path) < getWidth(colname) - 3 THEN path
    ELSE <<".", ".", ".">> \o Last(path, getWidth(colname) - 3)

(***************************************************************************)
(* State of one run of main().                                             *)
(***************************************************************************)
VARIABLES
    rows,          \* the rows fetched by get_all_memos, ordered by ZDATE
    args_all,      \* args.all
    isatty,        \* sys.stdin.isatty()
    date_in_name,  \* args.date_in_name
    db_path,       \* args.db_path
    export_path,   \* args.export_path
    utcoffset,     \* offset of local_tz to UTC, in seconds
    pc,            \* position of main()
    idx,           \* 1-based position of the for loop in rows
    key,           \* the local variable key
    term,          \* input mode of the terminal: "cooked", "noecho", "cbreak"
    old,           \* the attributes saved by termios.tcgetattr
    ttyq,          \* keys typed and still queued in the terminal driver
    pybuf,         \* characters read from the terminal, buffered by sys.stdin
    typed,         \* every key typed so far, in order
    readlog,       \* every key returned by sys.stdin.read(1): [rec, key, mode],
                   \* mode the terminal mode of the read, "buffered" without a read
    fs,            \* the files of the export folder: path -> [data, stamped, mtime]
    fs0,           \* the files of the export folder when the current row was planned
    out,           \* what was printed: [k, rec, st]
    line           \* text of the body row printed last

vars == <<rows, args_all, isatty, date_in_name, db_path, export_path, utcoffset,
          pc, idx, key, term, old, ttyq, pybuf, typed, readlog, fs, fs0, out, line>>

inputs == <<rows, isatty, date_in_name, db_path, export_path, utcoffset>>

ENTER == 10
ESC == 27
\* the key codes a user types: Enter, Escape, and "a" for any other key
Keys == {ENTER, ESC, 97}

(***************************************************************************)
(* The inputs of the runs explored.                                        *)
(***************************************************************************)
Z0 == [s |-> 0, us |-> 0]
Z1 == [s |-> 1, us |-> 200000]

RowA == [zdate |-> Z0, dur |-> [s |-> 1, us |-> 500000],
         label |-> <<"a">>, path |-> <<"a", ".", "m">>]
\* sanitizes to the same label as RowA
RowB == [zdate |-> Z0, dur |-> [s |-> 36000, us |-> 0],
         label |-> <<"U+00E9", "a">>, path |-> <<"b", ".", "m">>]
\* no file
RowN == [zdate |-> Z1, dur |-> [s |-> 0, us |-> 0],
         label |-> <<"n">>, path |-> <<>>]
\* a label that looks like a timestamp, an absolute path, a duration of one day
RowT == [zdate |-> Z1, dur |-> [s |-> 86400, us |-> 0],
         label |-> <<"T", "/", "Z">>, path |-> <<"/", "t", ".", "w">>]

RowSet == {RowA, RowB, RowN, RowT}

\* ORDER BY ZDATE
Before(r1, r2) ==
    r1.zdate.s < r2.zdate.s \/ (r1.zdate.s = r2.zdate.s /\ r1.zdate.us <= r2.zdate.us)

RowSeqs ==
    UNION { { q \in [1..n -> RowSet] : \A i \in 1..(n - 1) : Before(q[i], q[i + 1]) }
            : n \in 0..MaxRows }

DbPaths == { <<"/">> \o Rep("d", 30) \o <<"/", "d", "b">> }
\* long enough for a destination path to be truncated in its column when
\* the date is part of the name, and not otherwise
ExportPaths == { <<"/">> \o Rep("e", 39) }

\* a file found in the export folder before the run
OldFile == [data |-> <<"o", "l", "d">>, stamped |-> FALSE, mtime |-> 0]
Partial == <<"p", "a", "r", "t", "i", "a", "l">>

Init ==
    /\ rows \in RowSeqs
    /\ args_all \in BOOLEAN
    /\ isatty \in BOOLEAN
    /\ date_in_name \in BOOLEAN
    /\ db_path \in DbPaths
    /\ export_path \in ExportPaths
    /\ utcoffset = 0
    /\ pc = "start"
    /\ idx = 1
    /\ key = 0
    /\ term = "cooked"
    /\ old = "cooked"
    /\ ttyq = <<>>
    /\ pybuf = <<>>
    /\ typed = <<>>
    /\ readlog = <<>>
    /\ fs = [p \in { path_join(export_path, <<"a", ".", "m">>) } |-> OldFile]
    /\ fs0 = fs
    /\ out = <<>>
    /\ line = <<>>

(***************************************************************************)
(* The plan of the current row (lines 157-185).                            *)
(***************************************************************************)
Row == rows[idx]
PathOld == path_old(Row, db_path)
PathNew == path_new(Row, db_path, export_path, date_in_name, utcoffset)

\* body_row((date_str, duration_str, path_old_short, path_new_short, status))
RowText(status) ==
    body_row(<< date_str(Row.zdate, utcoffset), duration_str(Row.dur),
                path_short(PathOld, "Old Path"), path_short(PathNew, "New Path"),
                status >>)

Printed(k, rec, st) == Append(out, [k |-> k, rec |-> rec, st |-> st])

(***************************************************************************)
(* The steps of main().                                                    *)
(***************************************************************************)
\* line 78: no terminal on standard input and no --all
Fallback_NoTtyCheck == FALSE
Fallback == ~isatty /\ ~args_all

\* lines 77-80 and 136-151: the fallback to --all, the exit on an empty
\* database, the intro and the table header
Start ==
    /\ pc = "start"
    /\ LET all1 == args_all \/ Fallback
           o1 == IF Fallback THEN Printed("notice", 0, <<>>) ELSE out
       IN /\ args_all' = all1
          /\ IF rows = <<>>
             THEN /\ pc' = "exited"
                  /\ out' = o1
             ELSE /\ pc' = "loop"
                  /\ out' = (IF all1 THEN o1
                             ELSE Append(o1, [k |-> "intro", rec |-> 0, st |-> <<>>]))
                            \o << [k |-> "header", rec |-> 0, st |-> <<>>] >>
    /\ UNCHANGED <<inputs, fs0, idx, key, term, old, ttyq, pybuf, typed, readlog, fs, line>>

\* the user types a key on the terminal while main() runs
Type(k) ==
    /\ isatty
    /\ pc \notin {"exited", "done", "aborted"}
    /\ Len(typed) < MaxKeys
    /\ typed' = Append(typed, k)
    /\ ttyq' = Append(ttyq, k)
    /\ UNCHANGED <<inputs, fs0, args_all, pc, idx, key, term, old, pybuf, readlog, fs, out, line>>

\* lines 202, 210, 217: where the while loop goes with this key
AfterKey_AnyKeySkips(k) == IF k = ENTER THEN "copy" ELSE "skip"
AfterKey(k) == IF k = ENTER THEN "copy" ELSE IF k = ESC THEN "skip" ELSE "read"

\* line 194: key = 0
InitialKey == 0

\* line 201: tty.setcbreak(sys.stdin) changes the attributes with TCSAFLUSH,
\* which discards the input q queued in the driver
setcbreak_NoFlush(q) == q
setcbreak(q) == <<>>

\* lines 154-201: plan the next row, then print "No File", or take key = 10
\* with --all, or print the pending row and prepare the terminal:
\* tcgetattr, tcsetattr(~ECHO), tty.setcbreak (tcsetattr with TCSAFLUSH,
\* which discards the input queued in the driver)
PlanRow ==
    /\ pc = "loop"
    /\ idx <= Len(rows)
    /\ IF PathOld = <<>>
       THEN /\ out' = Printed("row", idx, StNoFile)
            /\ line' = RowText(StNoFile)
            /\ idx' = idx + 1
            /\ UNCHANGED <<pc, key, term, old, ttyq>>
       ELSE IF args_all
       THEN /\ key' = ENTER
            /\ pc' = "copy"
            /\ UNCHANGED <<idx, term, old, ttyq, out, line>>
       ELSE /\ key' = InitialKey
            /\ out' = Printed("row", idx, StPending)
            /\ line' = RowText(StPending)
            /\ old' = term
            /\ term' = "cbreak"
            /\ ttyq' = setcbreak(ttyq)
            /\ pc' = AfterKey(InitialKey)
            /\ UNCHANGED idx
    /\ fs0' = fs
    /\ UNCHANGED <<inputs, args_all, pybuf, typed, readlog, fs>>

\* what one read of the terminal returns to sys.stdin when its buffer is
\* empty: everything queued without ICANON, one line with ICANON
FirstEnter(q) == CHOOSE i \in 1..Len(q) : q[i] = ENTER /\ \A j \in 1..(i - 1) : q[j] # ENTER
Chunk == IF term = "cbreak" THEN ttyq ELSE SubSeq(ttyq, 1, FirstEnter(ttyq))
HasInput ==
    \/ pybuf # <<>>
    \/ term = "cbreak" /\ ttyq # <<>>
    \/ term # "cbreak" /\ \E i \in 1..Len(ttyq) : ttyq[i] = ENTER

\* lines 202-207: one pass of the while loop, key = ord(sys.stdin.read(1)),
\* then the finally clause
ReadKey ==
    /\ pc = "read"
    /\ HasInput
    /\ LET buf == IF pybuf # <<>> THEN pybuf ELSE Chunk
       IN /\ key' = Head(buf)
          /\ pybuf' = Tail(buf)
          /\ ttyq' = IF pybuf # <<>> THEN ttyq ELSE SubSeq(ttyq, Len(buf) + 1, Len(ttyq))
          /\ readlog' = Append(readlog, [rec |-> idx, key |-> Head(buf),
                                          mode |-> IF pybuf # <<>> THEN "buffered" ELSE term])
          /\ pc' = AfterKey(Head(buf))
    /\ term' = old
    /\ UNCHANGED <<inputs, fs0, args_all, idx, old, typed, fs, out, line>>

\* the read raises and no finally clause restores the terminal
ReadRaises_NoFinally ==
    /\ pc = "read"
    /\ pc' = "aborted"
    /\ UNCHANGED <<inputs, fs0, args_all, idx, key, term, old, ttyq, pybuf, typed, readlog, fs, out, line>>

\* lines 203-207: the read raises (KeyboardInterrupt, end of input), the
\* finally clause runs and the exception ends main()
ReadRaises ==
    /\ pc = "read"
    /\ term' = old
    /\ pc' = "aborted"
    /\ UNCHANGED <<inputs, fs0, args_all, idx, key, old, ttyq, pybuf, typed, readlog, fs, out, line>>

\* a copy that keeps a file already found at the destination
Copy_KeepExisting ==
    /\ pc = "copy"
    /\ key = ENTER
    /\ fs' = [p \in DOMAIN fs \cup {PathNew} |->
                IF p \in DOMAIN fs THEN fs[p]
                ELSE [data |-> PathOld, stamped |-> FALSE, mtime |-> 0]]
    /\ pc' = "utime"
    /\ UNCHANGED <<inputs, fs0, args_all, idx, key, term, old, ttyq, pybuf, typed, readlog, out, line>>

\* line 211: copyfile(path_old, path_new)
Copy ==
    /\ pc = "copy"
    /\ key = ENTER
    /\ fs' = [p \in DOMAIN fs \cup {PathNew} |->
                IF p = PathNew THEN [data |-> PathOld, stamped |-> FALSE, mtime |-> 0]
                ELSE fs[p]]
    /\ pc' = "utime"
    /\ UNCHANGED <<inputs, fs0, args_all, idx, key, term, old, ttyq, pybuf, typed, readlog, out, line>>

\* line 211 raises: the source or the destination cannot be opened (nothing
\* written), or the copy stops part way
CopyFails ==
    /\ pc = "copy"
    /\ key = ENTER
    /\ \/ fs' = fs
       \/ fs' = [p \in DOMAIN fs \cup {PathNew} |->
                   IF p = PathNew THEN [data |-> Partial, stamped |-> FALSE, mtime |-> 0]
                   ELSE fs[p]]
    /\ pc' = "aborted"
    /\ UNCHANGED <<inputs, fs0, args_all, idx, key, term, old, ttyq, pybuf, typed, readlog, out, line>>

\* lines 212-213: os.utime(path_new, (mod_time, mod_time))
Utime ==
    /\ pc = "utime"
    /\ fs' = [fs EXCEPT ![PathNew] =
                [@ EXCEPT !.stamped = TRUE, !.mtime = mod_time(Row.zdate, utcoffset)]]
    /\ pc' = "exported"
    /\ UNCHANGED <<inputs, fs0, args_all, idx, key, term, old, ttyq, pybuf, typed, readlog, out, line>>

\* the failure of os.utime is caught and the row is reported all the same
UtimeFails_Caught ==
    /\ pc = "utime"
    /\ pc' = "exported"
    /\ UNCHANGED <<inputs, fs0, args_all, idx, key, term, old, ttyq, pybuf, typed, readlog, fs, out, line>>

\* line 213 raises
UtimeFails ==
    /\ pc = "utime"
    /\ pc' = "aborted"
    /\ UNCHANGED <<inputs, fs0, args_all, idx, key, term, old, ttyq, pybuf, typed, readlog, fs, out, line>>

\* line 214
PrintExported ==
    /\ pc = "exported"
    /\ out' = Printed("row", idx, StExported)
    /\ line' = RowText(StExported)
    /\ idx' = idx + 1
    /\ pc' = "loop"
    /\ UNCHANGED <<inputs, fs0, args_all, key, term, old, ttyq, pybuf, typed, readlog, fs>>

\* the skipped memo is copied all the same
PrintSkipped_CopiesFile ==
    /\ pc = "skip"
    /\ key = ESC
    /\ fs' = [p \in DOMAIN fs \cup {PathNew} |->
                IF p = PathNew THEN [data |-> PathOld, stamped |-> FALSE, mtime |-> 0]
                ELSE fs[p]]
    /\ out' = Printed("row", idx, StNotExported)
    /\ line' = RowText(StNotExported)
    /\ idx' = idx + 1
    /\ pc' = "loop"
    /\ UNCHANGED <<inputs, fs0, args_all, key, term, old, ttyq, pybuf, typed, readlog>>

\* lines 217-218
PrintSkipped ==
    /\ pc = "skip"
    /\ key = ESC
    /\ out' = Printed("row", idx, StNotExported)
    /\ line' = RowText(StNotExported)
    /\ idx' = idx + 1
    /\ pc' = "loop"
    /\ UNCHANGED <<inputs, fs0, args_all, key, term, old, ttyq, pybuf, typed, readlog, fs>>

\* lines 220-224: the bottom border and the closing statement
Finish ==
    /\ pc = "loop"
    /\ idx > Len(rows)
    /\ out' = out \o << [k |-> "footer", rec |-> 0, st |-> <<>>],
                        [k |-> "done", rec |-> 0, st |-> <<>>] >>
    /\ pc' = "done"
    /\ UNCHANGED <<inputs, fs0, args_all, idx, key, term, old, ttyq, pybuf, typed, readlog, fs, line>>

Next ==
    \/ Start
    \/ \E k \in Keys : Type(k)
    \/ PlanRow
    \/ ReadKey
    \/ ReadRaises
    \/ Copy
    \/ CopyFails
    \/ Utime
    \/ UtimeFails
    \/ PrintExported
    \/ PrintSkipped
    \/ Finish

Spec == Init /\ [][Next]_vars

(***************************************************************************)
(* Vocabulary of the properties.                                           *)
(***************************************************************************)
Interactive == isatty /\ ~args_all
Bulk == args_all \/ ~isatty
Accepted(k) == k \in {ENTER, ESC}
HasFile(r) == rows[r].path # <<>>
HasRow(r, st) == \E i \in 1..Len(out) : out[i] = [k |-> "row", rec |-> r, st |-> st]
RowsOf(r) == { i \in 1..Len(out) : out[i].k = "row" /\ out[i].rec = r }
ReadsOf(r) == { i \in 1..Len(readlog) : readlog[i].rec = r }
ReadKeys == [i \in 1..Len(readlog) |-> readlog[i].key]
AcceptedKeys(q) == SelectSeq(q, Accepted)
AcceptedReads == SelectSeq(readlog, LAMBDA e : Accepted(e.key))
FileRows == SelectSeq([r \in 1..Len(rows) |-> r], HasFile)
Dest(r) == path_new(rows[r], db_path, export_path, date_in_name, utcoffset)
Source(r) == path_old(rows[r], db_path)
RowWidth == Len(body_row(<<<<>>, <<>>, <<>>, <<>>, <<>>>>))
IsPrefix(a, b) == Len(a) <= Len(b) /\ a = SubSeq(b, 1, Len(a))
RECURSIVE IsSubseq(_, _)
IsSubseq(a, b) ==
    IF a = <<>> THEN TRUE
    ELSE IF b = <<>> THEN FALSE
    ELSE IF Head(a) = Head(b) THEN IsSubseq(Tail(a), Tail(b))
    ELSE IsSubseq(a, Tail(b))
\* what main() itself changes (the user may go on typing at any time)
progvars == <<args_all, pc, idx, key, term, old, pybuf, readlog, fs, out, line>>

(***************************************************************************)
(* C1: outside the keystroke read the terminal is in the mode saved        *)
(* before the capture, which is the echoing, line-buffered one: after an   *)
(* accepted key as well as after a read that raised.                       *)
(***************************************************************************)
C1_TerminalRestored ==
    pc # "read" => term = old /\ term = "cooked"

\* the read of the second key of a capture raised, after a first key was discarded
C1_Witness ==
    /\ pc = "aborted"
    /\ key = 97
    /\ HasRow(idx, StPending)
    /\ readlog # <<>>

(***************************************************************************)
(* C2: every read of the terminal made by a capture happens in cbreak      *)
(* (raw, non-echoing) mode, the reads repeated after a discarded key       *)
(* included.                                                               *)
(***************************************************************************)
C2_ReadsInRawMode ==
    \A i \in 1..Len(readlog) : readlog[i].mode # "buffered" => readlog[i].mode = "cbreak"

(***************************************************************************)
(* C3: in interactive mode a record with a file is decided only by a key   *)
(* 10 or 27 read for it, Export exactly for 10 and Skip exactly for 27;    *)
(* every key read before it is discarded, and discarding a key changes     *)
(* neither the files nor what was printed nor the position in the rows.    *)
(***************************************************************************)
C3_Decision ==
    Interactive =>
      /\ pc \in {"copy", "utime", "exported"} =>
            key = ENTER /\ readlog # <<>>
            /\ readlog[Len(readlog)].rec = idx /\ readlog[Len(readlog)].key = ENTER
      /\ pc = "skip" =>
            key = ESC /\ readlog # <<>>
            /\ readlog[Len(readlog)].rec = idx /\ readlog[Len(readlog)].key = ESC
      /\ pc = "read" =>
            /\ \A i \in ReadsOf(idx) : ~Accepted(readlog[i].key)
            /\ \A i \in RowsOf(idx) : out[i].st = StPending
      /\ \A r \in 1..(idx - 1) : HasFile(r) =>
            \E n \in ReadsOf(r) :
               /\ \A i \in ReadsOf(r) : i <= n /\ (i < n => ~Accepted(readlog[i].key))
               /\ HasRow(r, StExported) <=> readlog[n].key = ENTER
               /\ HasRow(r, StNotExported) <=> readlog[n].key = ESC

C3_Discard ==
    (pc = "read" /\ readlog' # readlog /\ ~Accepted(key'))
      => pc' = "read" /\ fs' = fs /\ out' = out /\ line' = line /\ idx' = idx

C3_KeyDecides == []C3_Decision /\ [][C3_Discard]_vars

\* a record exported by Enter after another key was discarded
C3_Witness ==
    /\ Interactive
    /\ pc = "copy"
    /\ Len(readlog) >= 2
    /\ readlog[Len(readlog) - 1].rec = idx
    /\ readlog[Len(readlog) - 1].key = 97

(***************************************************************************)
(* C4: in bulk mode (--all given, or standard input not a terminal) no     *)
(* key is ever read, the terminal mode never changes, no "Export?" row     *)
(* is printed, and every finished record with a file is Exported; a run    *)
(* that reaches its end has finished every record.                        *)
(***************************************************************************)
C4_BulkState ==
    Bulk =>
      /\ readlog = <<>>
      /\ term = "cooked"
      /\ pc \notin {"read", "skip"}
      /\ \A i \in 1..Len(out) : out[i].k = "row" => out[i].st \in {StExported, StNoFile}
      /\ \A r \in 1..(idx - 1) : HasFile(r) => HasRow(r, StExported)
      /\ pc = "done" => idx = Len(rows) + 1

C4_BulkStep ==
    Bulk => term' = term /\ readlog' = readlog /\ pybuf' = pybuf /\ Len(ttyq') >= Len(ttyq)

C4_BulkExportsAll == []C4_BulkState /\ [][C4_BulkStep]_vars

\* a finished run that switched to bulk mode by itself and exported two records
C4_Witness ==
    /\ ~isatty
    /\ pc = "done"
    /\ out[1].k = "notice"
    /\ HasRow(1, StExported)
    /\ HasRow(2, StExported)

(***************************************************************************)
(* C5: a record without a relative path has an empty source and an empty   *)
(* destination path, gets no row other than "No File", has no key read     *)
(* for it, and is never pending, copied or skipped, in either mode.        *)
(***************************************************************************)
C5_NoFile ==
    \A r \in 1..Len(rows) : ~HasFile(r) =>
      /\ Source(r) = <<>>
      /\ Dest(r) = <<>>
      /\ \A i \in RowsOf(r) : out[i].st = StNoFile
      /\ r < idx => HasRow(r, StNoFile)
      /\ ReadsOf(r) = {}
      /\ idx = r => pc \in {"start", "loop"}

\* an interactive run that finished a record without a file after a capture
C5_Witness ==
    /\ Interactive
    /\ pc = "done"
    /\ readlog # <<>>
    /\ \E r \in 1..Len(rows) : ~HasFile(r) /\ HasRow(r, StNoFile)

(***************************************************************************)
(* C6: when a record is finished as "Not Exported" or "No File", the       *)
(* files of the export folder are what they were when the record was       *)
(* planned; a record for which Escape was read gets the row "Not           *)
(* Exported" and no other final row.                                       *)
(***************************************************************************)
C6_NoFileOperation ==
    (Len(out') > Len(out) /\ out'[Len(out')].k = "row"
       /\ out'[Len(out')].st \in {StNotExported, StNoFile})
      => fs' = fs0' /\ fs' = fs

C6_SkippedRow ==
    /\ pc = "skip" => fs = fs0
    /\ \A r \in 1..(idx - 1) :
          (\E i \in ReadsOf(r) : readlog[i].key = ESC)
             => HasRow(r, StNotExported) /\ ~HasRow(r, StExported)

C6_SkipLeavesFiles == []C6_SkippedRow /\ [][C6_NoFileOperation]_vars

\* a record exported, then a record skipped
C6_Witness ==
    /\ idx = 3
    /\ HasRow(1, StExported)
    /\ HasRow(2, StNotExported)
    /\ DOMAIN fs # {}

(***************************************************************************)
(* C7: a failed copy or a failed os.utime ends the run: the record gets    *)
(* no final row, no later record gets a row, neither the footer nor the    *)
(* closing statement is printed, main() takes no further step (no retry,   *)
(* no repair of the destination), and the run goes past a copy only with   *)
(* the file complete and stamped.                                          *)
(***************************************************************************)
C7_Aborted ==
    /\ (pc = "aborted" /\ key = ENTER) =>
          /\ \A i \in RowsOf(idx) : out[i].st = StPending
          /\ \A i \in 1..Len(out) : out[i].k \notin {"footer", "done"}
          /\ \A i \in 1..Len(out) : out[i].k = "row" => out[i].rec <= idx
    /\ pc \notin {"utime", "aborted"} =>
          \A p \in DOMAIN fs : fs[p] = OldFile \/ (fs[p].stamped /\ fs[p].data # Partial)

C7_NoStepAfterAbort ==
    pc = "aborted" => UNCHANGED progvars

C7_FailureAborts == []C7_Aborted /\ [][C7_NoStepAfterAbort]_vars

\* the copy of the first of two records stopped part way
C7_Witness ==
    /\ pc = "aborted"
    /\ key = ENTER
    /\ idx = 1
    /\ Len(rows) = 2
    /\ \E p \in DOMAIN fs : fs[p].data = Partial

(***************************************************************************)
(* C8: every body row printed has the same length, the sum of the column   *)
(* widths and of the borders.                                              *)
(***************************************************************************)
C8_RowLength ==
    line # <<>> => Len(line) = RowWidth

(***************************************************************************)
(* C9: between two records and at the end of the run, a destination        *)
(* path holds the content and the timestamp of the last record exported    *)
(* to it, and every record that was to be exported has the row             *)
(* "Exported!", whether or not its destination was already taken.          *)
(***************************************************************************)
C9_LastExportWins ==
    pc \in {"loop", "done"} =>
      \A r \in 1..(idx - 1) :
        /\ (HasFile(r) /\ (args_all \/ \E i \in ReadsOf(r) : readlog[i].key = ENTER))
              => HasRow(r, StExported)
        /\ (HasRow(r, StExported)
              /\ \A r2 \in (r + 1)..(idx - 1) : ~(HasRow(r2, StExported) /\ Dest(r2) = Dest(r)))
              => /\ Dest(r) \in DOMAIN fs
                 /\ fs[Dest(r)] = [data |-> Source(r), stamped |-> TRUE,
                                   mtime |-> mod_time(rows[r].zdate, utcoffset)]

\* two records with different files exported to one destination
C9_Witness ==
    /\ pc = "done"
    /\ Len(rows) = 2
    /\ HasRow(1, StExported)
    /\ HasRow(2, StExported)
    /\ Dest(1) = Dest(2)
    /\ Source(1) # Source(2)

(***************************************************************************)
(* C10 as stated: the records with a file are decided, in order, by the    *)
(* keys 10 and 27 of the stream of typed keys, in order and without a gap. *)
(***************************************************************************)
C10_TypedStreamDecides ==
    IsPrefix(AcceptedKeys(ReadKeys), AcceptedKeys(typed))

(***************************************************************************)
(* C10 amended: the keys are read in the order typed; the i-th record      *)
(* with a file is decided by the i-th key 10 or 27 that is read; what      *)
(* sys.stdin has buffered is kept from one record to the next, and what    *)
(* is queued in the terminal driver when a capture starts is discarded.    *)
(***************************************************************************)
C10_ReadOrder ==
    Interactive =>
      /\ IsSubseq(ReadKeys \o pybuf \o ttyq, typed)
      /\ Len(AcceptedReads) <= Len(FileRows)
      /\ \A j \in 1..Len(AcceptedReads) : AcceptedReads[j].rec = FileRows[j]
      /\ \A r \in 1..(idx - 1) : HasFile(r) => \E i \in ReadsOf(r) : Accepted(readlog[i].key)
      /\ pc \in {"copy", "utime", "exported", "skip"} =>
            readlog # <<>> /\ readlog[Len(readlog)] .rec = idx
            /\ readlog[Len(readlog)].key = key

C10_CaptureStart ==
    (pc = "loop" /\ pc' = "read") => ttyq' = <<>> /\ pybuf' = pybuf

C10_ReadStreamDecides == []C10_ReadOrder /\ [][C10_CaptureStart]_vars

\* Enter typed before the first capture is lost; Escape and Enter read in
\* one piece decide the first and the second record
C10_Witness ==
    /\ idx = 2
    /\ pc = "copy"
    /\ typed = <<ENTER, ESC, ENTER>>
    /\ ReadKeys = <<ESC, ENTER>>
    /\ readlog[2].mode = "buffered"

====
